---- MODULE Spec2Model ----
(***************************************************************************)
(* A model of BlobService (src/src/blob-service.js): put, putAll, the      *)
(* option encoder, the multipart body assembler, lastModifiedHeaders and   *)
(* the decoder of the streamed response (decodeAddEntry).                  *)
(*                                                                         *)
(* Strings that the code converts (toString, parseInt) are sequences of    *)
(* one-character strings.  A response text is a sequence of tokens: each   *)
(* token is one newline, one run of other white space, or the text of one  *)
(* JSON value.                                                             *)
(***************************************************************************)
EXTENDS Integers, Sequences, FiniteSets

\* ------------------------------------------------------------------ bounds

\* At most this many fields of an options object are set in one call.
MaxSetOptions == 2
\* At most this many files are passed to one putAll.
MaxFiles == 2
\* At most this many tokens make a response text.
MaxBody == 4

\* ------------------------------------------------------------ JS values

Undefined == [t |-> "undefined", b |-> FALSE, n |-> 0, s |-> <<>>]
Null == [t |-> "null", b |-> FALSE, n |-> 0, s |-> <<>>]
Bool(x) == [t |-> "boolean", b |-> x, n |-> 0, s |-> <<>>]
Num(k) == [t |-> "number", b |-> FALSE, n |-> k, s |-> <<>>]
\* NaN: the one number of the model that is no integer.
NaN == [t |-> "number", b |-> TRUE, n |-> 0, s |-> <<>>]
Str(chars) == [t |-> "string", b |-> FALSE, n |-> 0, s |-> chars]
Fn(name) == [t |-> "function", b |-> FALSE, n |-> 0, s |-> name]
Obj(name) == [t |-> "object", b |-> FALSE, n |-> 0, s |-> name]

\* x != null
NotNullish(v) == v.t \notin {"undefined", "null"}

\* if (x)
Truthy(v) ==
    CASE v.t = "undefined" -> FALSE
      [] v.t = "null" -> FALSE
      [] v.t = "boolean" -> v.b
      [] v.t = "number" -> ~v.b /\ v.n # 0
      [] v.t = "string" -> v.s # <<>>
      [] OTHER -> TRUE

DigitChars == <<"0", "1", "2", "3", "4", "5", "6", "7", "8", "9">>

RECURSIVE NatToString(_)
\* Number.prototype.toString of a non-negative integer
NatToString(k) ==
    IF k < 10 THEN <<DigitChars[k + 1]>>
    ELSE NatToString(k \div 10) \o <<DigitChars[(k % 10) + 1]>>

\* x.toString() / String(x)
ToString(v) ==
    CASE v.t = "boolean" -> IF v.b THEN <<"t", "r", "u", "e">> ELSE <<"f", "a", "l", "s", "e">>
      [] v.t = "number" ->
            IF v.b THEN <<"N", "a", "N">>
            ELSE IF v.n < 0 THEN <<"-">> \o NatToString(-v.n) ELSE NatToString(v.n)
      [] v.t = "string" -> v.s
      [] v.t = "undefined" -> <<"u", "n", "d", "e", "f", "i", "n", "e", "d">>
      [] v.t = "null" -> <<"n", "u", "l", "l">>
      [] OTHER -> <<"[", "o", "b", "j", "e", "c", "t", "]">>

\* ------------------------------------------- URLSearchParams and Headers

\* URLSearchParams.set / Headers.set on an ordered list of entries: replace
\* the value of the first entry of that name and drop the others, or append.
EntrySet(entries, name, value) ==
    LET has == \E i \in 1..Len(entries) : entries[i].name = name
        first == CHOOSE i \in 1..Len(entries) :
                    /\ entries[i].name = name
                    /\ \A j \in 1..(i - 1) : entries[j].name # name
        keep(i) == entries[i].name # name \/ i = first
        RECURSIVE build(_)
        build(i) ==
            IF i > Len(entries) THEN <<>>
            ELSE IF ~keep(i) THEN build(i + 1)
            ELSE IF i = first THEN <<[name |-> name, value |-> value]>> \o build(i + 1)
            ELSE <<entries[i]>> \o build(i + 1)
    IN  IF has THEN build(1) ELSE Append(entries, [name |-> name, value |-> value])

\* ------------------------------------------------------- option encoder

OptionFields ==
    { "chunker", "cidVersion", "enableShardingExperiment", "hashAlg", "onlyHash",
      "pin", "rawLeaves", "shardSplitThreshold", "trickle", "wrapWithDirectory",
      "timeout", "signal", "progress" }

\* One conditional searchParams.set of putAll.
SetIf(params, cond, name, value) ==
    IF cond THEN EntrySet(params, name, value) ELSE params

\* if (chunker) / if (hashAlg)
StringOptionPresent(v) == Truthy(v)

\* The slip if (pin): a field set to false or 0 is taken as unset.
OptionPresentTruthy(v) == Truthy(v)

\* if (pin != null) and the like
OptionPresent(v) == NotNullish(v)

\* The searchParams putAll builds from its options.
SearchParams(o) ==
    LET p0 == EntrySet(<<>>, "stream-channels", <<"t", "r", "u", "e">>)
        p1 == SetIf(p0, OptionPresent(o.progress), "progress", <<"t", "r", "u", "e">>)
        p2 == SetIf(p1, OptionPresent(o.trickle), "trickle", ToString(o.trickle))
        p3 == SetIf(p2, OptionPresent(o.onlyHash), "only-hash", ToString(o.onlyHash))
        p4 == SetIf(p3, OptionPresent(o.wrapWithDirectory), "wrap-with-directory",
                    ToString(o.wrapWithDirectory))
        p5 == SetIf(p4, StringOptionPresent(o.chunker), "chunker", o.chunker.s)
        p6 == SetIf(p5, OptionPresent(o.pin), "pin", ToString(o.pin))
        p7 == SetIf(p6, OptionPresent(o.rawLeaves), "raw-leaves", ToString(o.rawLeaves))
        p8 == SetIf(p7, OptionPresent(o.cidVersion), "cid-version", ToString(o.cidVersion))
        p9 == SetIf(p8, StringOptionPresent(o.hashAlg), "hashAlg", o.hashAlg.s)
    IN  p9

\* ------------------------------------------- files and the request body

\* file.lastModified of the files the model passes (whole milliseconds).
LastModifiedValues == {0, 999, 1500, 86400123}

\* A File: its name and its lastModified.
Files == [name : {"f"}, lastModified : LastModifiedValues]

\* The slip Math.round(ms / 1000).
RoundSecs(ms) == (ms + 500) \div 1000

\* Math.floor(ms / 1000)
FloorSecs(ms) == ms \div 1000

\* (ms - secs * 1000) * 1000
NSecs(ms, secs) == (ms - secs * 1000) * 1000

\* lastModifiedHeaders(file)
lastModifiedHeaders(file) ==
    LET ms == file.lastModified
        secs == FloorSecs(ms)
        nsecs == NSecs(ms, secs)
        h1 == EntrySet(<<>>, "mtime", ToString(Num(secs)))
        h2 == EntrySet(h1, "mtime-nsecs", ToString(Num(nsecs)))
    IN  h2

\* MultipartData.append(name, value, {headers}): one more part, at the end.
MultipartAppend(parts, name, value, headers) ==
    Append(parts, [name |-> name, value |-> value, headers |-> headers])

\* MultipartData.toBlob(): the encoded body, which holds the parts in order.
MultipartToBlob(parts) == [type |-> "multipart/form-data", parts |-> parts]

RECURSIVE AppendFiles(_, _)
\* for (const file of files) body.append("file", file, {headers: ...})
AppendFiles(parts, files) ==
    IF files = <<>> THEN parts
    ELSE AppendFiles(
            MultipartAppend(parts, "file", Head(files), lastModifiedHeaders(Head(files))),
            Tail(files))

\* The init object putAll hands to client.fetch, with the resource.
FetchRequest(files, o) ==
    [ resource |-> "add",
      method |-> "POST",
      body |-> MultipartToBlob(AppendFiles(<<>>, files)),
      searchParams |-> SearchParams(o),
      timeout |-> o.timeout,
      signal |-> o.signal,
      progress |-> o.progress ]

\* ------------------------------------------------------ response text

WhiteSpaceKinds == {"nl", "sp"}

Token(k, hash, name, size) == [k |-> k, Hash |-> hash, Name |-> name, Size |-> size]

\* "\n"
NL == Token("nl", Undefined, Undefined, Undefined)
\* a run of white space other than "\n"
SP == Token("sp", Undefined, Undefined, Undefined)
\* text that is no JSON, such as a truncated record
Junk == Token("junk", Undefined, Undefined, Undefined)
\* the text of a JSON number
Scalar == Token("scalar", Undefined, Undefined, Undefined)
\* the text null
NullLit == Token("null", Undefined, Undefined, Undefined)
\* the text of a JSON object with these members (Undefined: no such member)
Record(hash, name, size) == Token("obj", hash, name, size)

HashA == Str(<<"Q", "m", "A">>)
HashB == Str(<<"Q", "m", "B">>)
HashBad == Str(<<"!">>)

\* The identifiers the cids library accepts.
ValidHashes == {HashA, HashB}

RecA == Record(HashA, Str(<<"a">>), Str(<<"4", "2">>))
RecB == Record(HashB, Str(<<"b">>), Str(<<"3">>))
RecNoHash == Record(Undefined, Str(<<"b">>), Undefined)
RecNullHash == Record(Null, Str(<<"c">>), Str(<<"7">>))
RecBadSize == Record(HashA, Str(<<"d">>), Str(<<"a", "b", "c">>))
RecPxSize == Record(HashB, Str(<<"e">>), Str(<<"-", "5", "p", "x">>))
RecBadCid == Record(HashBad, Str(<<"g">>), Str(<<"1">>))

Tokens ==
    { NL, SP, Junk, Scalar, NullLit,
      RecA, RecB, RecNoHash, RecNullHash, RecBadSize, RecPxSize, RecBadCid }

IsWhiteSpace(tok) == tok.k \in WhiteSpaceKinds

RECURSIVE TrimStart(_)
TrimStart(text) ==
    IF text # <<>> /\ IsWhiteSpace(Head(text)) THEN TrimStart(Tail(text)) ELSE text

RECURSIVE TrimEnd(_)
TrimEnd(text) ==
    IF text # <<>> /\ IsWhiteSpace(text[Len(text)])
    THEN TrimEnd(SubSeq(text, 1, Len(text) - 1))
    ELSE text

\* String.prototype.trim
Trim(text) == TrimEnd(TrimStart(text))

RECURSIVE SplitFrom(_, _)
\* The lines of text, the first of which starts with the tokens in line.
SplitFrom(text, line) ==
    IF text = <<>> THEN <<line>>
    ELSE IF Head(text).k = "nl" THEN <<line>> \o SplitFrom(Tail(text), <<>>)
    ELSE SplitFrom(Tail(text), Append(line, Head(text)))

\* String.prototype.split("\n"): one line more than there are newlines.
SplitLines(text) == SplitFrom(text, <<>>)

\* JSON.parse(line): a value between optional white space, or a SyntaxError.
JSONParse(line) ==
    LET values == SelectSeq(line, LAMBDA tok : ~IsWhiteSpace(tok))
    IN  IF Len(values) = 1 /\ values[1].k # "junk"
        THEN [ok |-> TRUE, value |-> values[1]]
        ELSE [ok |-> FALSE, value |-> Junk]

\* ----------------------------------------------------------- parseInt

WhiteSpaceChars == {" ", "\t", "\r", "\n"}

HexLower == <<"0", "1", "2", "3", "4", "5", "6", "7", "8", "9", "a", "b", "c", "d", "e", "f">>
HexUpper == <<"0", "1", "2", "3", "4", "5", "6", "7", "8", "9", "A", "B", "C", "D", "E", "F">>

\* The value of ch as a digit, or 16 when it is none.
DigitValue(ch) ==
    IF \E i \in 1..16 : HexLower[i] = ch THEN (CHOOSE i \in 1..16 : HexLower[i] = ch) - 1
    ELSE IF \E i \in 1..16 : HexUpper[i] = ch THEN (CHOOSE i \in 1..16 : HexUpper[i] = ch) - 1
    ELSE 16

RECURSIVE SkipWhiteSpace(_)
SkipWhiteSpace(chars) ==
    IF chars # <<>> /\ Head(chars) \in WhiteSpaceChars THEN SkipWhiteSpace(Tail(chars))
    ELSE chars

RECURSIVE DigitPrefix(_, _)
\* The longest prefix of chars made of digits of the radix.
DigitPrefix(chars, radix) ==
    IF chars # <<>> /\ DigitValue(Head(chars)) < radix
    THEN <<Head(chars)>> \o DigitPrefix(Tail(chars), radix)
    ELSE <<>>

RECURSIVE DigitsValue(_, _, _)
DigitsValue(chars, radix, acc) ==
    IF chars = <<>> THEN acc
    ELSE DigitsValue(Tail(chars), radix, acc * radix + DigitValue(Head(chars)))

\* parseInt(v), no radix given: 10, or 16 after 0x.
ParseInt(v) ==
    LET s0 == SkipWhiteSpace(ToString(v))
        signed == s0 # <<>> /\ Head(s0) \in {"-", "+"}
        sign == IF s0 # <<>> /\ Head(s0) = "-" THEN -1 ELSE 1
        s1 == IF signed THEN Tail(s0) ELSE s0
        hex == Len(s1) >= 2 /\ s1[1] = "0" /\ s1[2] \in {"x", "X"}
        radix == IF hex THEN 16 ELSE 10
        s2 == IF hex THEN SubSeq(s1, 3, Len(s1)) ELSE s1
        digits == DigitPrefix(s2, radix)
    IN  IF digits = <<>> THEN NaN ELSE Num(sign * DigitsValue(digits, radix, 0))

\* ------------------------------------------------------------ decoder

NoError == <<>>
Error(name, message) == <<[name |-> name, message |-> message]>>

\* new CID(hash): the identifier, or the error of the cids library.
NewCID(hash) ==
    IF hash \in ValidHashes
    THEN [ok |-> TRUE, cid |-> [multihash |-> hash.s]]
    ELSE [ok |-> FALSE, cid |-> [multihash |-> <<>>]]

\* decodeAddEntry(data), when new CID does not throw.
decodeAddEntry(data) ==
    [path |-> data.Name, size |-> ParseInt(data.Size), cid |-> NewCID(data.Hash).cid]

\* The lines .map((line) => JSON.parse(line)) hands to JSON.parse: all of
\* them, or those up to the first one that throws.
ParsedLines(lines) ==
    LET bad == {i \in 1..Len(lines) : ~JSONParse(lines[i]).ok}
    IN  IF bad = {} THEN lines
        ELSE SubSeq(lines, 1, CHOOSE i \in bad : \A j \in bad : i <= j)

\* The slip data.Hash !== undefined: a record whose Hash is null is kept.
HasHashNotUndefined(data) == data.Hash.t # "undefined"

\* data.Hash != null, which throws a TypeError when data is null.
HasHash(data) == NotNullish(data.Hash)

\* A decoder that isolates failures per record: it skips the lines that do
\* not parse and the records whose identifier is rejected.
DecodeSkippingFailures(text) ==
    LET lines == SplitLines(Trim(text))
        good == SelectSeq(lines, LAMBDA line : JSONParse(line).ok)
        values == [i \in 1..Len(good) |-> JSONParse(good[i]).value]
        kept == SelectSeq(values, LAMBDA data : NotNullish(data.Hash) /\ NewCID(data.Hash).ok)
    IN  [ ok |-> TRUE,
          value |-> [i \in 1..Len(kept) |->
                        [ path |-> kept[i].Name,
                          size |-> ParseInt(kept[i].Size),
                          cid |-> NewCID(kept[i].Hash).cid ]],
          error |-> <<>>,
          parsed |-> lines ]

\* text.trim().split("\n").map(JSON.parse).filter(...).map(decodeAddEntry):
\* the array returned or the error thrown, and the lines JSON.parse was given.
Decode(text) ==
    LET lines == SplitLines(Trim(text))
        parsed == ParsedLines(lines)
        values == [i \in 1..Len(lines) |-> JSONParse(lines[i]).value]
        kept == SelectSeq(values, HasHash)
        fail(err) == [ok |-> FALSE, value |-> <<>>, error |-> err, parsed |-> parsed]
    IN  IF \E i \in 1..Len(lines) : ~JSONParse(lines[i]).ok
        THEN fail(Error("SyntaxError", "Unexpected token in JSON"))
        ELSE IF \E i \in 1..Len(values) : values[i].k = "null"
        THEN fail(Error("TypeError", "Cannot read property 'Hash' of null"))
        ELSE IF \E i \in 1..Len(kept) : ~NewCID(kept[i].Hash).ok
        THEN fail(Error("Error", "invalid CID"))
        ELSE [ ok |-> TRUE,
               value |-> [i \in 1..Len(kept) |-> decodeAddEntry(kept[i])],
               error |-> NoError,
               parsed |-> parsed ]

\* throw new Error(response.statusText)
StatusError(response) == Error("Error", response.statusText)

\* The slip of returning the last element.
LastOf(added) == IF added = <<>> THEN <<>> ELSE <<added[Len(added)]>>

\* const [added] = await this.putAll([file], options); return added
\* (no first element: undefined, here the empty sequence).
FirstOf(added) == IF added = <<>> THEN <<>> ELSE <<added[1]>>

\* The list put passes to putAll.
PutFiles(file) == <<file>>

\* ------------------------------------------------------------- inputs

CallIds == {"a", "b"}

BooleanOptions ==
    { "enableShardingExperiment", "onlyHash", "pin", "rawLeaves", "shardSplitThreshold",
      "trickle", "wrapWithDirectory" }

\* The values a set field of an options object takes: those of its declared
\* type, and null.
OptionValues(f) ==
    CASE f = "chunker" -> {Str(<<>>), Str(<<"r", "a", "b", "i", "n">>), Null}
      [] f = "hashAlg" -> {Str(<<>>), Str(<<"s", "h", "a", "1">>), Null}
      [] f = "cidVersion" -> {Num(0), Num(1), Null}
      [] f \in BooleanOptions -> {Bool(TRUE), Bool(FALSE), Null}
      [] f = "timeout" -> {Num(1000)}
      [] f = "signal" -> {Obj(<<"s", "i", "g">>)}
      [] f = "progress" -> {Fn(<<"c", "b">>), Null}

AllOptionValues == UNION {OptionValues(f) : f \in OptionFields}

\* options = {}
DefaultOptions == [f \in OptionFields |-> Undefined]

\* The options objects with exactly the fields of S set.
OptionsSetting(S) ==
    { [f \in OptionFields |-> IF f \in S THEN g[f] ELSE Undefined] :
        g \in {h \in [S -> AllOptionValues] : \A f \in S : h[f] \in OptionValues(f)} }

AllOptions ==
    UNION {OptionsSetting(S) : S \in {T \in SUBSET OptionFields : Cardinality(T) <= MaxSetOptions}}

SeqsUpTo(S, n) == UNION {[1..k -> S] : k \in 0..n}

AllFileLists == SeqsUpTo(Files, MaxFiles)

DefaultFile == [name |-> "f", lastModified |-> 1500]

AllTexts == SeqsUpTo(Tokens, MaxBody)

FewTexts == {<<>>, <<RecA>>, <<RecB, NL>>, <<Junk>>}

FewOptions == {DefaultOptions, [DefaultOptions EXCEPT !.pin = Bool(TRUE)]}

FewFiles == {DefaultFile, [name |-> "f", lastModified |-> 0]}

Responses ==
    { [ok |-> TRUE, statusText |-> "OK"],
      [ok |-> FALSE, statusText |-> "Internal Server Error"],
      [ok |-> FALSE, statusText |-> "Not Found"] }

\* ---------------------------------------------------------------- state

VARIABLES
    client,     \* this.client: the capability the calls share
    active,     \* the calls the caller makes: one, or two at once
    calls       \* per call: where it is, its arguments, what it did and got

vars == <<client, active, calls>>

IdleCall ==
    [ pc |-> "idle",        \* idle, fetching, reading, resolved, rejected
      kind |-> "putAll",    \* the method called: put or putAll
      putFile |-> <<>>,     \* put's file argument
      putOptions |-> <<>>,  \* put's options argument
      files |-> <<>>,       \* putAll's files
      options |-> DefaultOptions,  \* putAll's options
      requests |-> <<>>,    \* the client.fetch calls made
      response |-> <<>>,    \* the response client.fetch resolved to
      textReads |-> 0,      \* the response.text() calls made
      text |-> <<>>,        \* the text response.text() resolved to (<<>>: none yet)
      parsed |-> <<>>,      \* the lines given to JSON.parse
      result |-> <<>>,      \* the array putAll resolved to
      error |-> NoError,    \* the error putAll rejected with
      putResult |-> <<>>,   \* the value put resolved to (<<>>: undefined)
      putError |-> NoError  \* the error put rejected with
    ]

\* The pairs of arguments a call is made with: one call alone varies its
\* options or its files, two calls at once take theirs from a few.
ArgumentsOf(n) ==
    IF n = 1
    THEN (AllFileLists \X {DefaultOptions}) \cup ({<<DefaultFile>>} \X AllOptions)
    ELSE {<<f>> : f \in FewFiles} \X FewOptions

PutArgumentsOf(n) ==
    IF n = 1
    THEN (Files \X {DefaultOptions}) \cup ({DefaultFile} \X AllOptions)
    ELSE FewFiles \X FewOptions

\* The texts a response body resolves to: every text for a call alone with
\* the default arguments, a few otherwise.
TextsOf(n, call) ==
    IF n = 1 /\ call.options = DefaultOptions /\ call.files = <<DefaultFile>>
    THEN AllTexts
    ELSE FewTexts

Init ==
    /\ client = [baseURL |-> "http://localhost:5001/api/v0"]
    /\ active \in {{"a"}, CallIds}
    /\ calls = [c \in CallIds |-> IdleCall]

\* The slip of keeping the options in a field the calls share: call c
\* overwrites the options of the other calls.
BeginPutAllSharedOptions(cs, c, files, options) ==
    [d \in DOMAIN cs |->
        IF d = c
        THEN [cs[d] EXCEPT !.pc = "fetching",
                           !.files = files,
                           !.options = options,
                           !.requests = Append(@, FetchRequest(files, options))]
        ELSE [cs[d] EXCEPT !.options = options]]

\* putAll up to its await of client.fetch: the calls after call c has built
\* its searchParams and body and issued its request.
BeginPutAll(cs, c, files, options) ==
    [cs EXCEPT ![c] = [@ EXCEPT !.pc = "fetching",
                                !.files = files,
                                !.options = options,
                                !.requests = Append(@, FetchRequest(files, options))]]

\* putAll(files, options)
PutAll(c, files, options) ==
    /\ c \in active
    /\ calls[c].pc = "idle"
    /\ calls' = BeginPutAll(calls, c, files, options)
    /\ UNCHANGED <<client, active>>

\* put(file, options): putAll([file], options)
Put(c, file, options) ==
    /\ c \in active
    /\ calls[c].pc = "idle"
    /\ calls' = BeginPutAll(
                    [calls EXCEPT ![c] = [@ EXCEPT !.kind = "put",
                                                   !.putFile = <<file>>,
                                                   !.putOptions = <<options>>]],
                    c, PutFiles(file), options)
    /\ UNCHANGED <<client, active>>

\* The call after its putAll rejected with err; put rejects with the same.
Rejected(call, err) ==
    [call EXCEPT !.pc = "rejected",
                 !.error = err,
                 !.putError = IF call.kind = "put" THEN err ELSE NoError]

\* The call after its putAll resolved to added; put resolves to the first.
Resolved(call, added) ==
    [call EXCEPT !.pc = "resolved",
                 !.result = added,
                 !.putResult = IF call.kind = "put" THEN FirstOf(added) ELSE <<>>]

\* A putAll that retries once: on a response that is not ok it issues its
\* request again.
AfterResponseRetryOnce(call, response) ==
    IF response.ok
    THEN [call EXCEPT !.pc = "reading",
                      !.response = <<response>>,
                      !.textReads = @ + 1]
    ELSE IF Len(call.requests) < 2
    THEN [call EXCEPT !.requests = Append(@, call.requests[1])]
    ELSE Rejected([call EXCEPT !.response = <<response>>], StatusError(response))

\* The slip of not testing response.ok: the body is read whatever the status.
AfterResponseAlwaysRead(call, response) ==
    [call EXCEPT !.pc = "reading",
                 !.response = <<response>>,
                 !.textReads = @ + 1]

\* The call after client.fetch resolved to response: if (response.ok)
\* response.text() is awaited, else the status text is thrown.
AfterResponse(call, response) ==
    IF response.ok
    THEN [call EXCEPT !.pc = "reading",
                      !.response = <<response>>,
                      !.textReads = @ + 1]
    ELSE Rejected([call EXCEPT !.response = <<response>>], StatusError(response))

\* client.fetch resolves.
FetchResolve(c, response) ==
    /\ calls[c].pc = "fetching"
    /\ calls' = [calls EXCEPT ![c] = AfterResponse(@, response)]
    /\ UNCHANGED <<client, active>>

\* client.fetch rejects (no connection, a timeout, an abort).
FetchReject(c) ==
    /\ calls[c].pc = "fetching"
    /\ calls' = [calls EXCEPT ![c] = Rejected(@, Error("FetchError", "fetch failed"))]
    /\ UNCHANGED <<client, active>>

\* The call after response.text() resolved to text.
AfterText(call, text) ==
    LET d == Decode(text)
        read == [call EXCEPT !.text = <<text>>, !.parsed = d.parsed]
    IN  IF d.ok THEN Resolved(read, d.value) ELSE Rejected(read, d.error)

\* response.text() resolves.
TextResolve(c, text) ==
    /\ calls[c].pc = "reading"
    /\ calls' = [calls EXCEPT ![c] = AfterText(@, text)]
    /\ UNCHANGED <<client, active>>

\* response.text() rejects (the connection broke).
TextReject(c) ==
    /\ calls[c].pc = "reading"
    /\ calls' = [calls EXCEPT ![c] = Rejected(@, Error("FetchError", "body failed"))]
    /\ UNCHANGED <<client, active>>

\* A call that is idle is made; one that awaits its fetch or its text goes on.
Next ==
    \E c \in active :
        \/ /\ calls[c].pc = "idle"
           /\ \E args \in ArgumentsOf(Cardinality(active)) : PutAll(c, args[1], args[2])
        \/ /\ calls[c].pc = "idle"
           /\ \E args \in PutArgumentsOf(Cardinality(active)) : Put(c, args[1], args[2])
        \/ \E response \in Responses : FetchResolve(c, response)
        \/ FetchReject(c)
        \/ /\ calls[c].pc = "reading"
           /\ \E text \in TextsOf(Cardinality(active), calls[c]) : TextResolve(c, text)
        \/ TextReject(c)

Spec == Init /\ [][Next]_vars

\* ---------------------------------------------------------------- claims

Issued == {c \in CallIds : calls[c].pc # "idle"}

\* The number of entries of that name.
CountNamed(entries, name) == Cardinality({i \in 1..Len(entries) : entries[i].name = name})

\* entries holds exactly one entry of that name, and it has that value.
HasOnly(entries, name, value) ==
    /\ CountNamed(entries, name) = 1
    /\ \E i \in 1..Len(entries) : entries[i] = [name |-> name, value |-> value]

StrTrue == <<"t", "r", "u", "e">>
StrFalse == <<"f", "a", "l", "s", "e">>

\* The wire name of each option that is encoded as a query parameter.
WireName ==
    [ chunker |-> "chunker", cidVersion |-> "cid-version", hashAlg |-> "hashAlg",
      onlyHash |-> "only-hash", pin |-> "pin", rawLeaves |-> "raw-leaves",
      trickle |-> "trickle", wrapWithDirectory |-> "wrap-with-directory" ]

\* The documented string form of a set option.
StringForm(v) ==
    CASE v = Bool(TRUE) -> StrTrue
      [] v = Bool(FALSE) -> StrFalse
      [] v = Num(0) -> <<"0">>
      [] v = Num(1) -> <<"1">>
      [] OTHER -> v.s

\* A field is set when it holds a value of its type (not undefined, not null).
IsSet(v) == v.t \notin {"undefined", "null"}

\* The query parameters are those of the options, where present(f, v) says
\* which values of field f count as set.
ParamsMatch(params, o, present(_, _)) ==
    /\ \A f \in DOMAIN WireName :
          IF present(f, o[f])
          THEN HasOnly(params, WireName[f], StringForm(o[f]))
          ELSE CountNamed(params, WireName[f]) = 0
    /\ IF IsSet(o.progress)
       THEN HasOnly(params, "progress", StrTrue)
       ELSE CountNamed(params, "progress") = 0
    /\ HasOnly(params, "stream-channels", StrTrue)

SetAny(f, v) == IsSet(v)

SetAndNotEmpty(f, v) == IsSet(v) /\ (f \in {"chunker", "hashAlg"} => v.s # <<>>)

\* C1 as stated: every field of chunker, cidVersion, hashAlg, onlyHash, pin,
\* rawLeaves, trickle, wrapWithDirectory that is set, to any value of its
\* type, has exactly one query parameter under its wire name holding its
\* string form; progress="true" is there when a progress callback is set; an
\* unset field has no parameter; stream-channels="true" is always there.
C1_EverySetFieldEncoded ==
    \A c \in Issued :
        ParamsMatch(calls[c].requests[1].searchParams, calls[c].options, SetAny)

\* C1 amended: as C1, but chunker and hashAlg have their parameter only when
\* set to a non-empty string; set to the empty string they have none.
C1_SetFieldsEncodedUnlessEmptyString ==
    \A c \in Issued :
        ParamsMatch(calls[c].requests[1].searchParams, calls[c].options, SetAndNotEmpty)

\* A request whose options set pin to false and cidVersion to 0: both are sent.
C1_Witness ==
    \E c \in Issued :
        /\ calls[c].options.pin = Bool(FALSE)
        /\ calls[c].options.cidVersion = Num(0)
        /\ calls[c].requests[1].searchParams =
              << [name |-> "stream-channels", value |-> StrTrue],
                 [name |-> "pin", value |-> StrFalse],
                 [name |-> "cid-version", value |-> <<"0">>] >>

\* C2: a call whose response is not ok is rejected with the response's status
\* text, resolves to nothing, and neither reads nor decodes the body.
C2_NonSuccessRejects ==
    \A c \in CallIds :
        (calls[c].response # <<>> /\ ~calls[c].response[1].ok) =>
            /\ calls[c].pc = "rejected"
            /\ Len(calls[c].error) = 1
            /\ calls[c].error[1].message = calls[c].response[1].statusText
            /\ calls[c].result = <<>>
            /\ calls[c].putResult = <<>>
            /\ calls[c].textReads = 0
            /\ calls[c].text = <<>>
            /\ calls[c].parsed = <<>>

\* A call rejected with "Internal Server Error", the status text it got.
C2_Witness ==
    \E c \in CallIds :
        /\ calls[c].response = <<[ok |-> FALSE, statusText |-> "Internal Server Error"]>>
        /\ calls[c].pc = "rejected"
        /\ calls[c].error[1].message = "Internal Server Error"

\* The text is records separated by single newlines, with or without a newline
\* at its end; each record is a JSON object whose Hash is absent, null or an
\* identifier the parser accepts.
IsRecordStream(text) ==
    LET body == IF text # <<>> /\ text[Len(text)] = NL
                THEN SubSeq(text, 1, Len(text) - 1) ELSE text
    IN  /\ Len(body) % 2 = 1
        /\ \A i \in 1..Len(body) :
              IF i % 2 = 1
              THEN /\ body[i].k = "obj"
                   /\ IsSet(body[i].Hash) => body[i].Hash \in ValidHashes
              ELSE body[i] = NL

\* The records of a text, in the order of its lines.
RecordsOf(text) == SelectSeq(text, LAMBDA tok : tok.k = "obj")

\* The records of a text that have a Hash, in the order of its lines.
HashedRecordsOf(text) == SelectSeq(RecordsOf(text), LAMBDA rec : IsSet(rec.Hash))

\* C3: when the body is a non-empty sequence of valid newline-delimited
\* records, putAll resolves to one AddedFile per record with a non-null Hash,
\* in the order of the lines, each with that record's Name and identifier, and
\* to none made from a record without Hash.
C3_OneResultPerHashedRecord ==
    \A c \in CallIds :
        (calls[c].text # <<>> /\ IsRecordStream(calls[c].text[1])) =>
            LET hashed == HashedRecordsOf(calls[c].text[1])
                added == calls[c].result
            IN  /\ calls[c].pc = "resolved"
                /\ Len(added) = Len(hashed)
                /\ \A i \in 1..Len(hashed) :
                      /\ added[i].path = hashed[i].Name
                      /\ added[i].cid.multihash = hashed[i].Hash.s

\* The body of two records, the second without Hash, and a newline at its end
\* gave one AddedFile, that of the first.
C3_Witness ==
    \E c \in CallIds :
        /\ calls[c].text = << <<RecB, NL, RecNoHash, NL>> >>
        /\ calls[c].pc = "resolved"
        /\ Len(calls[c].result) = 1
        /\ calls[c].result[1].path = Str(<<"b">>)
        /\ calls[c].result[1].size = Num(3)

\* The tokens of a text from its first to its last that is no white space.
Core(text) ==
    LET ink == {i \in 1..Len(text) : text[i].k \notin {"nl", "sp"}}
    IN  IF ink = {} THEN <<>>
        ELSE SubSeq(text, CHOOSE i \in ink : \A j \in ink : i <= j,
                          CHOOSE i \in ink : \A j \in ink : i >= j)

\* Some line of the text is no JSON value between optional white space, or is
\* the value null: the lines are the stretches between the newlines of the core.
SomeLineFailsToParse(text) ==
    LET core == Core(text)
        cuts == {0, Len(core) + 1} \cup {i \in 1..Len(core) : core[i].k = "nl"}
        inLine(a, b) == {i \in (a + 1)..(b - 1) : core[i].k # "sp"}
    IN  \E a, b \in cuts :
            /\ a < b
            /\ \A m \in cuts : ~(a < m /\ m < b)
            /\ \/ Cardinality(inLine(a, b)) # 1
               \/ \E i \in inLine(a, b) : core[i].k \in {"junk", "null"}

\* Some record of the text has a Hash that the identifier parser rejects.
SomeIdentifierRejected(text) ==
    \E i \in 1..Len(text) :
        text[i].k = "obj" /\ IsSet(text[i].Hash) /\ text[i].Hash \notin ValidHashes

\* C4: when a line of the body fails to parse, or the identifier of a record
\* is rejected, the call is rejected and resolves to nothing, wherever the bad
\* line is and whatever the other lines are.
C4_NoPartialResult ==
    \A c \in CallIds :
        ( /\ calls[c].text # <<>>
          /\ \/ SomeLineFailsToParse(calls[c].text[1])
             \/ SomeIdentifierRejected(calls[c].text[1]) ) =>
            /\ calls[c].pc = "rejected"
            /\ calls[c].error # NoError
            /\ calls[c].result = <<>>
            /\ calls[c].putResult = <<>>

\* A valid record and then a line that is no JSON: rejected, nothing returned.
C4_Witness ==
    \E c \in CallIds :
        /\ calls[c].text = << <<RecA, NL, Junk>> >>
        /\ calls[c].pc = "rejected"
        /\ calls[c].error # NoError
        /\ calls[c].result = <<>>

\* C5: put(file, options) is putAll([file], options): the one request of that
\* putAll, rejected with the error putAll is rejected with, and else resolved
\* to the first element of what putAll resolves to.
C5_PutIsPutAllOfOne ==
    \A c \in Issued :
        calls[c].kind = "put" =>
            /\ calls[c].files = <<calls[c].putFile[1]>>
            /\ calls[c].options = calls[c].putOptions[1]
            /\ calls[c].requests = <<FetchRequest(<<calls[c].putFile[1]>>, calls[c].putOptions[1])>>
            /\ Len(calls[c].requests[1].body.parts) = 1
            /\ calls[c].requests[1].body.parts[1].value = calls[c].putFile[1]
            /\ calls[c].pc = "rejected" =>
                  calls[c].putError = calls[c].error /\ calls[c].error # NoError
            /\ calls[c].pc = "resolved" =>
                  /\ calls[c].putError = NoError
                  /\ calls[c].putResult =
                        IF Len(calls[c].result) = 0 THEN <<>>
                        ELSE SubSeq(calls[c].result, 1, 1)

\* A put whose putAll resolved to two elements resolved to the first.
C5_Witness ==
    \E c \in Issued :
        /\ calls[c].kind = "put"
        /\ calls[c].pc = "resolved"
        /\ Len(calls[c].result) = 2
        /\ calls[c].putResult = <<calls[c].result[1]>>
        /\ calls[c].result[1] # calls[c].result[2]

\* C6: a putAll issues exactly one request over its life, whatever its outcome:
\* none before it is called, one ever after; it is a POST to "add" and carries
\* the caller's timeout, signal and progress callback unchanged.
C6_ExactlyOnePost ==
    \A c \in CallIds :
        IF calls[c].pc = "idle"
        THEN calls[c].requests = <<>>
        ELSE /\ Len(calls[c].requests) = 1
             /\ calls[c].requests[1].resource = "add"
             /\ calls[c].requests[1].method = "POST"
             /\ calls[c].requests[1].timeout = calls[c].options.timeout
             /\ calls[c].requests[1].signal = calls[c].options.signal
             /\ calls[c].requests[1].progress = calls[c].options.progress

\* A call given a timeout, whose body did not decode: one request, with the
\* timeout.
C6_Witness ==
    \E c \in CallIds :
        /\ calls[c].pc = "rejected"
        /\ calls[c].text = << <<Junk>> >>
        /\ calls[c].options.timeout = Num(1000)
        /\ Len(calls[c].requests) = 1
        /\ calls[c].requests[1].timeout = Num(1000)

\* What a call was given: its files and options, its response and its text.
InputsOf(call) ==
    <<call.kind, call.files, call.options, call.response, call.text>>

\* What a call did and gave back.
OutputsOf(call) ==
    <<call.requests, call.parsed, call.result, call.error, call.putResult, call.putError>>

\* A step of one call leaves the client and the other calls as they were.
StepOfOneCall ==
    /\ client' = client
    /\ \A c, d \in CallIds : (calls'[c] # calls[c] /\ d # c) => calls'[d] = calls[d]

\* Calls with the same files, options, response and text did and gave back
\* the same, however their steps were interleaved.
SameInputsSameOutputs ==
    \A c, d \in CallIds :
        ( /\ calls[c].pc = calls[d].pc
          /\ InputsOf(calls[c]) = InputsOf(calls[d]) ) =>
            OutputsOf(calls[c]) = OutputsOf(calls[d])

\* C7: concurrent putAll calls on one client are independent: no step writes
\* the client or the state of another call, and under every interleaving the
\* request and the result of a call are those its own files, options and
\* response give.
C7_CallsIndependent ==
    /\ [][StepOfOneCall]_vars
    /\ []SameInputsSameOutputs
    /\ [](\A c \in Issued : calls[c].requests = <<FetchRequest(calls[c].files, calls[c].options)>>)

\* Two calls in flight at once on different options, both then settled, each
\* on its own response.
C7_Witness ==
    /\ calls["a"].pc = "resolved"
    /\ calls["b"].pc = "rejected"
    /\ calls["a"].options # calls["b"].options
    /\ calls["a"].files # calls["b"].files
    /\ calls["a"].text = << <<RecA>> >>
    /\ calls["b"].text = << <<Junk>> >>
    /\ Len(calls["a"].result) = 1

\* The characters are a base-10 numeral.
IsNumeral(chars) ==
    /\ chars # <<>>
    /\ \A i \in 1..Len(chars) : chars[i] \in {"0", "1", "2", "3", "4", "5", "6", "7", "8", "9"}

\* C8 as stated: when a record with a Hash has a Size that is no base-10
\* numeral the call is rejected, and no AddedFile has a size that is not a
\* non-negative integer.
C8_NonNumericSizeRejected ==
    \A c \in CallIds :
        /\ ( /\ calls[c].text # <<>>
             /\ \E i \in 1..Len(calls[c].text[1]) :
                   LET tok == calls[c].text[1][i]
                   IN  /\ tok.k = "obj"
                       /\ IsSet(tok.Hash)
                       /\ ~(tok.Size.t = "string" /\ IsNumeral(tok.Size.s)) ) =>
                calls[c].pc = "rejected"
        /\ \A i \in 1..Len(calls[c].result) :
              calls[c].result[i].size.t = "number"
                  /\ ~calls[c].result[i].size.b
                  /\ calls[c].result[i].size.n >= 0

\* C9 as stated: every line handed to the record parser is non-empty.
C9_OnlyNonEmptyLinesParsed ==
    \A c \in CallIds :
        \A i \in 1..Len(calls[c].parsed) : calls[c].parsed[i] # <<>>

RECURSIVE Pow10(_)
Pow10(k) == IF k = 0 THEN 1 ELSE 10 * Pow10(k - 1)

\* The number a decimal string writes, or -1 when it is none: digits only,
\* no leading zero but in "0".
DecimalValue(chars) ==
    LET digit(ch) == CASE ch = "0" -> 0 [] ch = "1" -> 1 [] ch = "2" -> 2 [] ch = "3" -> 3
                       [] ch = "4" -> 4 [] ch = "5" -> 5 [] ch = "6" -> 6 [] ch = "7" -> 7
                       [] ch = "8" -> 8 [] ch = "9" -> 9
        RECURSIVE sum(_)
        sum(i) == IF i > Len(chars) THEN 0
                  ELSE digit(chars[i]) * Pow10(Len(chars) - i) + sum(i + 1)
    IN  IF IsNumeral(chars) /\ (Len(chars) > 1 => chars[1] # "0") THEN sum(1) ELSE -1

\* C10: the body has one part per file, in the order of the files, each under
\* the name "file" and holding its file, with the headers mtime, the decimal
\* string of floor(ms / 1000), and mtime-nsecs, that of
\* (ms - floor(ms / 1000) * 1000) * 1000, ms being the file's lastModified.
C10_OnePartPerFileWithMtime ==
    \A c \in Issued :
        LET parts == calls[c].requests[1].body.parts
            files == calls[c].files
        IN  /\ Len(parts) = Len(files)
            /\ \A k \in 1..Len(files) :
                  LET ms == files[k].lastModified
                      secs == DecimalValue(parts[k].headers[1].value)
                      nsecs == DecimalValue(parts[k].headers[2].value)
                  IN  /\ parts[k].name = "file"
                      /\ parts[k].value = files[k]
                      /\ Len(parts[k].headers) = 2
                      /\ parts[k].headers[1].name = "mtime"
                      /\ secs >= 0 /\ secs * 1000 <= ms /\ ms < (secs + 1) * 1000
                      /\ parts[k].headers[2].name = "mtime-nsecs"
                      /\ nsecs = (ms - secs * 1000) * 1000

\* Two files, of 86400123 ms and of 999 ms, in that order in the body.
C10_Witness ==
    \E c \in Issued :
        /\ Len(calls[c].files) = 2
        /\ calls[c].files[1].lastModified = 86400123
        /\ calls[c].files[2].lastModified = 999
        /\ calls[c].requests[1].body.parts[1].headers =
              << [name |-> "mtime", value |-> <<"8", "6", "4", "0", "0">>],
                 [name |-> "mtime-nsecs", value |-> <<"1", "2", "3", "0", "0", "0">>] >>
        /\ calls[c].requests[1].body.parts[2].headers =
              << [name |-> "mtime", value |-> <<"0">>],
                 [name |-> "mtime-nsecs", value |-> <<"9", "9", "9", "0", "0", "0">>] >>

====
